---- MODULE Spec2Model ----
(***************************************************************************)
(* us-ssn-tools: validation of US Social Security Numbers.                 *)
(*                                                                         *)
(* A string is a sequence of one-character strings.  The state is the text *)
(* of a form field that is typed one keystroke at a time, together with    *)
(* the outcome of every validator under every option setting for the text  *)
(* typed so far (the validators are pure functions of text and options);   *)
(* and the raw text of a displayed field, together with what the           *)
(* normalizer, the formatters and the maskers give for it; and the         *)
(* position and locals of a call of the generator, run statement by        *)
(* statement against a random source.                                      *)
(***************************************************************************)
EXTENDS Integers, Sequences, FiniteSets, TLC

VARIABLES input, outcome, valid, raw, display, masked, gen

vars == <<input, outcome, valid, raw, display, masked, gen>>

(***************************************************************************)
(* Bounds of the model.                                                    *)
(***************************************************************************)
\* most characters typed after the first one the typing parser rejects
MaxAfterError == 2

\* most digits put into the displayed field
MaxDigits == 11

\* most characters other than digits put into the displayed field
MaxJunk == 2

\* the stack frames left for the retries of one call of generateSsn
MaxDepth == 2

(***************************************************************************)
(* Characters and strings.                                                 *)
(***************************************************************************)
Digits == {"0", "1", "2", "3", "4", "5", "6", "7", "8", "9"}

Dash == "-"

\* a character that is neither a digit nor a dash
Other == "x"

DigitChar == <<"0", "1", "2", "3", "4", "5", "6", "7", "8", "9">>

\* the value of a decimal digit character
DigitVal(c) ==
  CASE c = "0" -> 0 [] c = "1" -> 1 [] c = "2" -> 2 [] c = "3" -> 3 [] c = "4" -> 4
    [] c = "5" -> 5 [] c = "6" -> 6 [] c = "7" -> 7 [] c = "8" -> 8 [] c = "9" -> 9

isDigit(c) == c \in Digits

Min(a, b) == IF a < b THEN a ELSE b

\* String.prototype.slice(a, b) for 0 <= a, 0 <= b
slice(s, a, b) == SubSeq(s, a + 1, Min(b, Len(s)))

\* String.prototype.slice(a)
sliceFrom(s, a) == SubSeq(s, a + 1, Len(s))

\* Number(s) for a string of decimal digits; Number("") is 0
RECURSIVE Number(_)
Number(s) ==
  IF s = <<>> THEN 0
  ELSE 10 * Number(SubSeq(s, 1, Len(s) - 1)) + DigitVal(s[Len(s)])

\* n.toString().padStart(w, '0')
RECURSIVE padStart(_, _)
padStart(n, w) ==
  IF w = 0 THEN <<>>
  ELSE Append(padStart(n \div 10, w - 1), DigitChar[(n % 10) + 1])

\* the decimal digits of s, in order (every other character dropped)
RECURSIVE extractDigits(_)
extractDigits(s) ==
  IF s = <<>> THEN <<>>
  ELSE IF isDigit(s[1]) THEN <<s[1]>> \o extractDigits(Tail(s))
  ELSE extractDigits(Tail(s))

(***************************************************************************)
(* utils.ts                                                                *)
(***************************************************************************)
\* a slip: the first dash waits for a fifth character
formatSsnFromDigits_LateDash(digits) ==
  IF Len(digits) <= 4 THEN digits
  ELSE IF Len(digits) <= 5
    THEN slice(digits, 0, 3) \o <<Dash>> \o sliceFrom(digits, 3)
  ELSE slice(digits, 0, 3) \o <<Dash>> \o slice(digits, 3, 5) \o <<Dash>>
         \o sliceFrom(digits, 5)

\* a slip: the serial is cut after its fourth character
formatSsnFromDigits_Truncate(digits) ==
  IF Len(digits) <= 3 THEN digits
  ELSE IF Len(digits) <= 5
    THEN slice(digits, 0, 3) \o <<Dash>> \o sliceFrom(digits, 3)
  ELSE slice(digits, 0, 3) \o <<Dash>> \o slice(digits, 3, 5) \o <<Dash>>
         \o slice(digits, 5, 9)

formatSsnFromDigits(digits) ==
  IF Len(digits) <= 3 THEN digits
  ELSE IF Len(digits) <= 5
    THEN slice(digits, 0, 3) \o <<Dash>> \o sliceFrom(digits, 3)
  ELSE slice(digits, 0, 3) \o <<Dash>> \o slice(digits, 3, 5) \o <<Dash>>
         \o sliceFrom(digits, 5)

\* a slip: what follows the ninth character is dropped
formatSsnWithOverflow_DropRest(digits) ==
  IF Len(digits) <= 9 THEN formatSsnFromDigits(digits)
  ELSE formatSsnFromDigits(slice(digits, 0, 9))

formatSsnWithOverflow(digits) ==
  IF Len(digits) <= 9 THEN formatSsnFromDigits(digits)
  ELSE formatSsnFromDigits(slice(digits, 0, 9)) \o sliceFrom(digits, 9)

\* a slip: the last digit of the third value is mistyped
PUBLICLY_ADVERTISED_Typo ==
  { <<"0", "7", "8", "-", "0", "5", "-", "1", "1", "2", "0">>,
    <<"7", "2", "1", "-", "0", "7", "-", "4", "4", "2", "6">>,
    <<"2", "1", "9", "-", "0", "9", "-", "9", "9", "9", "8">> }

\* "078-05-1120", "721-07-4426", "219-09-9999"
PUBLICLY_ADVERTISED ==
  { <<"0", "7", "8", "-", "0", "5", "-", "1", "1", "2", "0">>,
    <<"7", "2", "1", "-", "0", "7", "-", "4", "4", "2", "6">>,
    <<"2", "1", "9", "-", "0", "9", "-", "9", "9", "9", "9">> }

(***************************************************************************)
(* The left-to-right scan of the typing parsers: digits are accumulated,   *)
(* at most nine; a '-' is taken only right after 3 digits or right after 5 *)
(* digits, once at each place.                                             *)
(***************************************************************************)
ScanFail == [ok |-> FALSE, digits |-> <<>>, sawDashAt3 |-> FALSE, sawDashAt5 |-> FALSE]

\* a slip: a dash after 3 digits is taken again
RECURSIVE scanTyping_DoubledDash(_, _, _, _, _)
scanTyping_DoubledDash(s, i, digits, sawDashAt3, sawDashAt5) ==
  IF i > Len(s)
    THEN [ok |-> TRUE, digits |-> digits,
          sawDashAt3 |-> sawDashAt3, sawDashAt5 |-> sawDashAt5]
  ELSE IF isDigit(s[i])
    THEN IF Len(digits) >= 9 THEN ScanFail
         ELSE scanTyping_DoubledDash(s, i + 1, Append(digits, s[i]),
                                     sawDashAt3, sawDashAt5)
  ELSE IF Len(digits) = 3
    THEN scanTyping_DoubledDash(s, i + 1, digits, TRUE, sawDashAt5)
  ELSE IF Len(digits) = 5 /\ ~sawDashAt5
    THEN scanTyping_DoubledDash(s, i + 1, digits, sawDashAt3, TRUE)
  ELSE ScanFail

RECURSIVE scanTyping(_, _, _, _, _)
scanTyping(s, i, digits, sawDashAt3, sawDashAt5) ==
  IF i > Len(s)
    THEN [ok |-> TRUE, digits |-> digits,
          sawDashAt3 |-> sawDashAt3, sawDashAt5 |-> sawDashAt5]
  ELSE IF isDigit(s[i])
    THEN IF Len(digits) >= 9 THEN ScanFail
         ELSE scanTyping(s, i + 1, Append(digits, s[i]), sawDashAt3, sawDashAt5)
  ELSE IF Len(digits) = 3 /\ ~sawDashAt3
    THEN scanTyping(s, i + 1, digits, TRUE, sawDashAt5)
  ELSE IF Len(digits) = 5 /\ ~sawDashAt5
    THEN scanTyping(s, i + 1, digits, sawDashAt3, TRUE)
  ELSE ScanFail

\* /^[0-9-]*$/
onlyDigitsAndDashes(s) == \A i \in 1..Len(s) : isDigit(s[i]) \/ s[i] = Dash

\* /^\d{3}-\d{2}-\d{4}$/
matchesDashed(s) ==
  /\ Len(s) = 11
  /\ \A i \in 1..11 : IF i \in {4, 7} THEN s[i] = Dash ELSE isDigit(s[i])

\* /^\d{9}$/
matchesNineDigits(s) ==
  /\ Len(s) = 9
  /\ \A i \in 1..9 : isDigit(s[i])

\* input.replace(/-/g, '')
RECURSIVE removeDashes(_)
removeDashes(s) ==
  IF s = <<>> THEN <<>>
  ELSE IF s[1] = Dash THEN removeDashes(Tail(s))
  ELSE <<s[1]>> \o removeDashes(Tail(s))

(***************************************************************************)
(* src/validate.ts: the boolean validator.                                 *)
(***************************************************************************)
ParseFail == [ok |-> FALSE, digits |-> <<>>]

\* a slip: with dashes required, the digits typed past a missing dash pass
parseSsnInput_DashNotEnforced(s, requireDashes, allowPartial) ==
  IF ~allowPartial
    THEN IF matchesDashed(s) THEN [ok |-> TRUE, digits |-> removeDashes(s)]
         ELSE IF ~requireDashes /\ matchesNineDigits(s) THEN [ok |-> TRUE, digits |-> s]
         ELSE ParseFail
  ELSE IF ~onlyDigitsAndDashes(s) THEN ParseFail
  ELSE LET sc == scanTyping(s, 1, <<>>, FALSE, FALSE) IN
       IF ~sc.ok THEN ParseFail
       ELSE [ok |-> TRUE, digits |-> sc.digits]

parseSsnInput(s, requireDashes, allowPartial) ==
  IF ~allowPartial
    THEN IF matchesDashed(s) THEN [ok |-> TRUE, digits |-> removeDashes(s)]
         ELSE IF ~requireDashes /\ matchesNineDigits(s) THEN [ok |-> TRUE, digits |-> s]
         ELSE ParseFail
  ELSE IF ~onlyDigitsAndDashes(s) THEN ParseFail
  ELSE LET sc == scanTyping(s, 1, <<>>, FALSE, FALSE) IN
       IF ~sc.ok THEN ParseFail
       ELSE IF requireDashes /\ Len(sc.digits) > 3 /\ ~sc.sawDashAt3 THEN ParseFail
       ELSE IF requireDashes /\ Len(sc.digits) > 5 /\ ~sc.sawDashAt5 THEN ParseFail
       ELSE [ok |-> TRUE, digits |-> sc.digits]

isValidArea(area, ruleMode) ==
  IF area = 0 THEN FALSE
  ELSE IF area = 666 THEN FALSE
  ELSE IF area >= 900 THEN FALSE
  ELSE IF ruleMode = "pre2011" /\ area >= 734 /\ area <= 749 THEN FALSE
  ELSE IF ruleMode = "pre2011" /\ area >= 773 THEN FALSE
  ELSE TRUE

\* a slip: the group is checked from its first digit on
isValidSsn_EagerGroup(s, requireDashes, ruleMode, allowPartial) ==
  LET parsed == parseSsnInput(s, requireDashes, allowPartial)
      digits == parsed.digits
  IN
  IF ~parsed.ok THEN FALSE
  ELSE IF ~allowPartial /\ Len(digits) # 9 THEN FALSE
  ELSE IF Len(digits) >= 3 /\ ~isValidArea(Number(slice(digits, 0, 3)), ruleMode) THEN FALSE
  ELSE IF Len(digits) >= 4 /\ Number(slice(digits, 3, 5)) = 0 THEN FALSE
  ELSE IF Len(digits) = 9 /\ Number(slice(digits, 5, 9)) = 0 THEN FALSE
  ELSE IF Len(digits) = 9
            /\ (slice(digits, 0, 3) \o <<Dash>> \o slice(digits, 3, 5) \o <<Dash>>
                  \o sliceFrom(digits, 5)) \in PUBLICLY_ADVERTISED
    THEN FALSE
  ELSE TRUE

isValidSsn(s, requireDashes, ruleMode, allowPartial) ==
  LET parsed == parseSsnInput(s, requireDashes, allowPartial)
      digits == parsed.digits
  IN
  IF ~parsed.ok THEN FALSE
  ELSE IF ~allowPartial /\ Len(digits) # 9 THEN FALSE
  ELSE IF Len(digits) >= 3 /\ ~isValidArea(Number(slice(digits, 0, 3)), ruleMode) THEN FALSE
  ELSE IF Len(digits) >= 5 /\ Number(slice(digits, 3, 5)) = 0 THEN FALSE
  ELSE IF Len(digits) = 9 /\ Number(slice(digits, 5, 9)) = 0 THEN FALSE
  ELSE IF Len(digits) = 9
            /\ (slice(digits, 0, 3) \o <<Dash>> \o slice(digits, 3, 5) \o <<Dash>>
                  \o sliceFrom(digits, 5)) \in PUBLICLY_ADVERTISED
    THEN FALSE
  ELSE TRUE

(***************************************************************************)
(* The parser behind the structured validator (normalizeSsnInput): in      *)
(* strict mode the whole string is DDD-DD-DDDD, or DDDDDDDDD when dashes   *)
(* are optional; while typing, the scan above, and with dashes required a  *)
(* fourth digit needs the dash after the third and a sixth digit the dash  *)
(* after the fifth.  The normalized value is the dash-insertion format of  *)
(* the digits.                                                             *)
(***************************************************************************)
NormalizeErr == [ok |-> FALSE, digits |-> <<>>, normalized |-> <<>>]

NormalizeOk(digits) ==
  [ok |-> TRUE, digits |-> digits, normalized |-> formatSsnFromDigits(digits)]

normalizeSsnInput(s, allowNoDashes, allowPartial) ==
  IF ~allowPartial
    THEN IF matchesDashed(s) THEN NormalizeOk(removeDashes(s))
         ELSE IF allowNoDashes /\ matchesNineDigits(s) THEN NormalizeOk(s)
         ELSE NormalizeErr
  ELSE IF ~onlyDigitsAndDashes(s) THEN NormalizeErr
  ELSE LET sc == scanTyping(s, 1, <<>>, FALSE, FALSE) IN
       IF ~sc.ok THEN NormalizeErr
       ELSE IF ~allowNoDashes /\ Len(sc.digits) > 3 /\ ~sc.sawDashAt3 THEN NormalizeErr
       ELSE IF ~allowNoDashes /\ Len(sc.digits) > 5 /\ ~sc.sawDashAt5 THEN NormalizeErr
       ELSE NormalizeOk(sc.digits)

(***************************************************************************)
(* The structured validator (validateSsn) and its rules.                   *)
(***************************************************************************)
Valid(normalized) ==
  [ok |-> TRUE, error |-> "NONE", message |-> "", normalized |-> normalized]

Invalid(error, message) ==
  [ok |-> FALSE, error |-> error, message |-> message, normalized |-> <<>>]

MsgBaseArea == "Area number is not allowed (000, 666, and 900-999 are invalid)."

MsgPre2011Area ==
  "Area number is not allowed under pre-June 25, 2011 rules (734-749 and >= 773 are invalid)."

MsgArea9 == "Area numbers starting with 9 are not allowed."

MsgGroup == "Group number may not be 00."

MsgSerial == "Serial number may not be 0000."

MsgPublic == "This SSN is a known publicly advertised (and invalid) value."

\* the message of the parser's error, passed through
MsgFormat == "normalized.message"

\* a slip: the comparison is strict, so area 773 passes
violatesPre2011_OffByOne(areaNum) == (areaNum >= 734 /\ areaNum <= 749) \/ areaNum > 773

violatesPre2011(areaNum) == (areaNum >= 734 /\ areaNum <= 749) \/ areaNum >= 773

\* a slip: "both" read as "must pass both rule sets"
appliesPre2011_Both(ruleMode) == ruleMode \in {"pre2011", "both"}

\* the extra area restrictions are applied under ruleMode pre2011 only
appliesPre2011(ruleMode) == ruleMode = "pre2011"

\* a slip: the comparison is strict, so area 900 passes
isBaseInvalidArea_OffByOne(areaNum) == areaNum = 0 \/ areaNum = 666 \/ areaNum > 900

\* base rule 2: area cannot be 000, 666, or 900-999
isBaseInvalidArea(areaNum) == areaNum = 0 \/ areaNum = 666 \/ areaNum >= 900

\* a slip: no look-ahead on the first digit
startsWithNine_Never(area) == FALSE

\* a slip: the look-ahead applies to a lone first digit only
startsWithNine_OnlyFirst(area) == Len(area) = 1 /\ area[1] = "9"

\* a slip: a 9 anywhere in the area counts
startsWithNine_AnyNine(area) == \E i \in 1..Len(area) : area[i] = "9"

\* the look-ahead of the typing rules: an area starting with 9 can never be valid
startsWithNine(area) == Len(area) >= 1 /\ area[1] = "9"

normalizePrefix(digits) ==
  IF Len(digits) <= 3 THEN digits
  ELSE IF Len(digits) <= 5
    THEN slice(digits, 0, 3) \o <<Dash>> \o sliceFrom(digits, 3)
  ELSE slice(digits, 0, 3) \o <<Dash>> \o slice(digits, 3, 5) \o <<Dash>>
         \o sliceFrom(digits, 5)

\* a slip: the group is checked before the area
validateFullSegments_GroupFirst(area, group, serial, ruleMode) ==
  LET areaNum == Number(area)
      groupNum == Number(group)
      serialNum == Number(serial)
  IN
  IF groupNum = 0 THEN Invalid("INVALID_GROUP", MsgGroup)
  ELSE IF isBaseInvalidArea(areaNum)
    THEN Invalid("INVALID_AREA", MsgBaseArea)
  ELSE IF appliesPre2011(ruleMode) /\ violatesPre2011(areaNum)
    THEN Invalid("INVALID_AREA", MsgPre2011Area)
  ELSE IF serialNum = 0 THEN Invalid("INVALID_SERIAL", MsgSerial)
  ELSE Valid(area \o <<Dash>> \o group \o <<Dash>> \o serial)

validateFullSegments(area, group, serial, ruleMode) ==
  LET areaNum == Number(area)
      groupNum == Number(group)
      serialNum == Number(serial)
  IN
  IF isBaseInvalidArea(areaNum)
    THEN Invalid("INVALID_AREA", MsgBaseArea)
  ELSE IF appliesPre2011(ruleMode) /\ violatesPre2011(areaNum)
    THEN Invalid("INVALID_AREA", MsgPre2011Area)
  ELSE IF groupNum = 0 THEN Invalid("INVALID_GROUP", MsgGroup)
  ELSE IF serialNum = 0 THEN Invalid("INVALID_SERIAL", MsgSerial)
  ELSE Valid(area \o <<Dash>> \o group \o <<Dash>> \o serial)

\* a slip: the typing rules let a serial of 0000 pass
validatePartialSegments_NoSerial(area, group, serial, ruleMode) ==
  IF startsWithNine(area)
    THEN Invalid("INVALID_AREA", MsgArea9)
  ELSE IF Len(area) = 3 /\ isBaseInvalidArea(Number(area))
    THEN Invalid("INVALID_AREA", MsgBaseArea)
  ELSE IF Len(area) = 3 /\ appliesPre2011(ruleMode) /\ violatesPre2011(Number(area))
    THEN Invalid("INVALID_AREA", MsgPre2011Area)
  ELSE IF Len(group) = 2 /\ Number(group) = 0
    THEN Invalid("INVALID_GROUP", MsgGroup)
  ELSE IF Len(serial) = 4
            /\ (area \o <<Dash>> \o group \o <<Dash>> \o serial) \in PUBLICLY_ADVERTISED
    THEN Invalid("PUBLICLY_ADVERTISED", MsgPublic)
  ELSE Valid(normalizePrefix(slice(area \o group \o serial, 0, 9)))

\* a slip: the typing rules never consult the advertised values
validatePartialSegments_NoPublic(area, group, serial, ruleMode) ==
  IF startsWithNine(area)
    THEN Invalid("INVALID_AREA", MsgArea9)
  ELSE IF Len(area) = 3 /\ isBaseInvalidArea(Number(area))
    THEN Invalid("INVALID_AREA", MsgBaseArea)
  ELSE IF Len(area) = 3 /\ appliesPre2011(ruleMode) /\ violatesPre2011(Number(area))
    THEN Invalid("INVALID_AREA", MsgPre2011Area)
  ELSE IF Len(group) = 2 /\ Number(group) = 0
    THEN Invalid("INVALID_GROUP", MsgGroup)
  ELSE IF Len(serial) = 4 /\ Number(serial) = 0
    THEN Invalid("INVALID_SERIAL", MsgSerial)
  ELSE Valid(normalizePrefix(slice(area \o group \o serial, 0, 9)))

validatePartialSegments(area, group, serial, ruleMode) ==
  IF startsWithNine(area)
    THEN Invalid("INVALID_AREA", MsgArea9)
  ELSE IF Len(area) = 3 /\ isBaseInvalidArea(Number(area))
    THEN Invalid("INVALID_AREA", MsgBaseArea)
  ELSE IF Len(area) = 3 /\ appliesPre2011(ruleMode) /\ violatesPre2011(Number(area))
    THEN Invalid("INVALID_AREA", MsgPre2011Area)
  ELSE IF Len(group) = 2 /\ Number(group) = 0
    THEN Invalid("INVALID_GROUP", MsgGroup)
  ELSE IF Len(serial) = 4 /\ Number(serial) = 0
    THEN Invalid("INVALID_SERIAL", MsgSerial)
  ELSE IF Len(serial) = 4
            /\ (area \o <<Dash>> \o group \o <<Dash>> \o serial) \in PUBLICLY_ADVERTISED
    THEN Invalid("PUBLICLY_ADVERTISED", MsgPublic)
  ELSE Valid(normalizePrefix(slice(area \o group \o serial, 0, 9)))

\* a slip: strict validation parses the text as typing does
validateSsn_PartialParse(s, allowNoDashes, ruleMode, allowPartial) ==
  LET normalized == normalizeSsnInput(s, allowNoDashes, TRUE)
      digits == normalized.digits
      area == slice(digits, 0, 3)
      group == slice(digits, 3, 5)
      serial == slice(digits, 5, 9)
      ruleCheck == IF allowPartial
                     THEN validatePartialSegments(area, group, serial, ruleMode)
                     ELSE validateFullSegments(area, group, serial, ruleMode)
  IN
  IF ~normalized.ok THEN Invalid("INVALID_FORMAT", MsgFormat)
  ELSE IF ~allowPartial /\ normalized.normalized \in PUBLICLY_ADVERTISED
    THEN Invalid("PUBLICLY_ADVERTISED", MsgPublic)
  ELSE IF ~ruleCheck.ok THEN ruleCheck
  ELSE Valid(normalized.normalized)

\* a slip: the text is returned as it was typed
validateSsn_RawInput(s, allowNoDashes, ruleMode, allowPartial) ==
  LET normalized == normalizeSsnInput(s, allowNoDashes, allowPartial)
      digits == normalized.digits
      area == slice(digits, 0, 3)
      group == slice(digits, 3, 5)
      serial == slice(digits, 5, 9)
      ruleCheck == IF allowPartial
                     THEN validatePartialSegments(area, group, serial, ruleMode)
                     ELSE validateFullSegments(area, group, serial, ruleMode)
  IN
  IF ~normalized.ok THEN Invalid("INVALID_FORMAT", MsgFormat)
  ELSE IF ~allowPartial /\ normalized.normalized \in PUBLICLY_ADVERTISED
    THEN Invalid("PUBLICLY_ADVERTISED", MsgPublic)
  ELSE IF ~ruleCheck.ok THEN ruleCheck
  ELSE Valid(s)

validateSsn(s, allowNoDashes, ruleMode, allowPartial) ==
  LET normalized == normalizeSsnInput(s, allowNoDashes, allowPartial)
      digits == normalized.digits
      area == slice(digits, 0, 3)
      group == slice(digits, 3, 5)
      serial == slice(digits, 5, 9)
      ruleCheck == IF allowPartial
                     THEN validatePartialSegments(area, group, serial, ruleMode)
                     ELSE validateFullSegments(area, group, serial, ruleMode)
  IN
  IF ~normalized.ok THEN Invalid("INVALID_FORMAT", MsgFormat)
  ELSE IF ~allowPartial /\ normalized.normalized \in PUBLICLY_ADVERTISED
    THEN Invalid("PUBLICLY_ADVERTISED", MsgPublic)
  ELSE IF ~ruleCheck.ok THEN ruleCheck
  ELSE Valid(normalized.normalized)

(***************************************************************************)
(* src/normalize.ts: the display normalizer.                               *)
(***************************************************************************)
\* the extraction loop: the digits of s are appended to digits, and with
\* enforceLength the loop ends at the ninth
RECURSIVE takeDigits(_, _, _)
takeDigits(s, digits, enforceLength) ==
  IF s = <<>> THEN digits
  ELSE IF isDigit(s[1])
    THEN IF enforceLength /\ Len(digits) + 1 = 9 THEN Append(digits, s[1])
         ELSE takeDigits(Tail(s), Append(digits, s[1]), enforceLength)
  ELSE takeDigits(Tail(s), digits, enforceLength)

\* a slip: the digits are capped at 9 whatever enforceLength is
normalizeSsn_AlwaysCapped(s, allowPartial, digitsOnly, enforceLength) ==
  LET digits == takeDigits(s, <<>>, TRUE) IN
  IF digitsOnly THEN digits
  ELSE IF allowPartial THEN formatSsnWithOverflow(digits)
  ELSE IF Len(digits) = 9 \/ (enforceLength /\ Len(digits) = 9)
    THEN formatSsnFromDigits(slice(digits, 0, 9))
  ELSE s

\* a slip: strict display formats from 9 digits on, not at 9 exactly
normalizeSsn_AtLeastNine(s, allowPartial, digitsOnly, enforceLength) ==
  LET digits == takeDigits(s, <<>>, enforceLength) IN
  IF digitsOnly THEN digits
  ELSE IF allowPartial THEN formatSsnWithOverflow(digits)
  ELSE IF Len(digits) >= 9 \/ (enforceLength /\ Len(digits) = 9)
    THEN formatSsnFromDigits(slice(digits, 0, 9))
  ELSE s

normalizeSsn(s, allowPartial, digitsOnly, enforceLength) ==
  LET digits == takeDigits(s, <<>>, enforceLength) IN
  IF digitsOnly THEN digits
  ELSE IF allowPartial THEN formatSsnWithOverflow(digits)
  ELSE IF Len(digits) = 9 \/ (enforceLength /\ Len(digits) = 9)
    THEN formatSsnFromDigits(slice(digits, 0, 9))
  ELSE s

(***************************************************************************)
(* maskSsn, in its two variants: the one over normalizeSsn, which takes    *)
(* any text, and the one over normalizeSsnInput (maskSsnParsed here),      *)
(* which masks a text its parser rejects digit by digit, in place.         *)
(***************************************************************************)
Max(a, b) == IF a > b THEN a ELSE b

\* String.prototype.repeat
RECURSIVE repeat(_, _)
repeat(m, n) == IF n = 0 THEN <<>> ELSE m \o repeat(m, n - 1)

\* a slip: the whole of maskChar is used
maskCharOf_Whole(maskChar) == IF maskChar = <<>> THEN <<"*">> ELSE maskChar

\* (opts.maskChar ?? '*').slice(0, 1) || '*'
maskCharOf(maskChar) ==
  IF slice(maskChar, 0, 1) = <<>> THEN <<"*">> ELSE slice(maskChar, 0, 1)

maskSsn(s, allowPartial, revealLast4, maskChar, digitsOnly, enforceLength) ==
  LET m == maskCharOf(maskChar)
      digits == normalizeSsn(s, allowPartial, TRUE, enforceLength)
      total == Len(digits)
      serialTyped == Max(0, total - 5)
      revealCount == IF revealLast4 THEN Min(4, serialTyped) ELSE 0
      maskedCount == Max(0, total - revealCount)
      maskedDigits == repeat(m, maskedCount) \o sliceFrom(digits, maskedCount)
  IN
  IF digitsOnly THEN maskedDigits ELSE formatSsnWithOverflow(maskedDigits)

\* a slip: a rejected text is returned unchanged
maskBestEffort_Unchanged(s, m) == s

RECURSIVE maskBestEffort(_, _)
maskBestEffort(s, m) ==
  IF s = <<>> THEN <<>>
  ELSE (IF isDigit(s[1]) THEN m ELSE <<s[1]>>) \o maskBestEffort(Tail(s), m)

\* input.includes('-')
includesDash(s) == \E i \in 1..Len(s) : s[i] = Dash

maskSsnParsed(s, allowPartial, revealLast4, maskChar, allowNoDashes, dashMode) ==
  LET m == maskCharOf(maskChar)
      hadDashes == includesDash(s)
      normalized == normalizeSsnInput(s, allowNoDashes, allowPartial)
      digits == normalized.digits
      total == Len(digits)
      serialTyped == Max(0, total - 5)
      revealCount == IF revealLast4 THEN Min(4, serialTyped) ELSE 0
      maskedCount == Max(0, total - revealCount)
      maskedDigits == repeat(m, maskedCount) \o sliceFrom(digits, maskedCount)
  IN
  IF ~normalized.ok THEN maskBestEffort(s, m)
  ELSE IF dashMode = "normalize" THEN formatSsnFromDigits(maskedDigits)
  ELSE IF hadDashes THEN formatSsnFromDigits(maskedDigits)
  ELSE maskedDigits

(***************************************************************************)
(* The submit schema of the zod adapter (zodSsnSubmit): the text is        *)
(* normalized, then validated strictly; the result is the normalized text, *)
(* or an issue.                                                            *)
(***************************************************************************)
\* a slip: the normalizer is not told to stop at nine digits
zodSsnSubmit_NoCap(s, requireDashes, ruleMode) ==
  LET digitsOnly == IF requireDashes THEN FALSE ELSE TRUE
      normalized == normalizeSsn(s, FALSE, digitsOnly, FALSE)
      ok == isValidSsn(normalized, requireDashes, ruleMode, FALSE)
  IN  IF ~ok THEN [ok |-> FALSE, value |-> <<>>]
      ELSE [ok |-> TRUE, value |-> normalized]

zodSsnSubmit(s, requireDashes, ruleMode) ==
  LET digitsOnly == IF requireDashes THEN FALSE ELSE TRUE
      normalized == normalizeSsn(s, FALSE, digitsOnly, TRUE)
      ok == isValidSsn(normalized, requireDashes, ruleMode, FALSE)
  IN  IF ~ok THEN [ok |-> FALSE, value |-> <<>>]
      ELSE [ok |-> TRUE, value |-> normalized]

(***************************************************************************)
(* src/generate.ts: the generator.  A value of the random source is a      *)
(* fraction <<num, den>> with 0 <= num < den, a number in [0, 1).          *)
(***************************************************************************)
\* "078-05-1120", "721-07-4426", "219-09-9999", as the generator lists them
GENERATE_PUBLICLY_ADVERTISED ==
  << <<"0", "7", "8", "-", "0", "5", "-", "1", "1", "2", "0">>,
     <<"7", "2", "1", "-", "0", "7", "-", "4", "4", "2", "6">>,
     <<"2", "1", "9", "-", "0", "9", "-", "9", "9", "9", "9">> >>

\* Math.floor(r * (max - min + 1)) + min
randomInt(r, min, max) == ((r[1] * (max - min + 1)) \div r[2]) + min

\* rng() < 0.5
belowHalf(r) == 2 * r[1] < r[2]

pad3(n) == padStart(n, 3)

\* a slip: the comparison is strict, so area 773 is returned under pre2011
areaRejected_OffByOne(mode, n) ==
  \/ n = 666
  \/ mode = "pre2011" /\ ((n >= 734 /\ n <= 749) \/ n > 773)

\* the tests of one iteration of generateArea: true when n is drawn again
areaRejected(mode, n) ==
  \/ n = 666
  \/ mode = "pre2011" /\ ((n >= 734 /\ n <= 749) \/ n >= 773)

generateNonZeroFixedWidth(r, width) ==
  IF width = 2 THEN padStart(randomInt(r, 1, 99), 2)
  ELSE padStart(randomInt(r, 1, 9999), 4)

\* opts.mode ?? 'any'
modeOf(mode) == IF mode = "none" THEN "any" ELSE mode

\* opts.format ?? 'dashed'
formatOf(format) == IF format = "none" THEN "dashed" ELSE format

\* a slip: the value chosen is returned dashed whatever the format
inFormat_Dashed(dashed, format) == dashed

\* format === 'digits' ? dashed.replace(/-/g, '') : dashed
inFormat(dashed, format) ==
  IF formatOf(format) = "digits" THEN removeDashes(dashed) ELSE dashed

\* a slip: the value built is never compared with the advertised ones
includesAdvertised_Never(dashed) == FALSE

\* PUBLICLY_ADVERTISED.includes(dashed)
includesAdvertised(dashed) ==
  \E i \in 1..Len(GENERATE_PUBLICLY_ADVERTISED) :
    GENERATE_PUBLICLY_ADVERTISED[i] = dashed

\* no call of generateSsn is running
GenIdle ==
  [pc |-> "idle", mode |-> "none", format |-> "none", publicValue |-> <<>>,
   effectiveMode |-> "none", n |-> 0, area |-> <<>>, group |-> <<>>,
   serial |-> <<>>, depth |-> 0, result |-> <<>>]

(***************************************************************************)
(* The form field.  Every keystroke appends one character, and the text    *)
(* typed so far is validated under every option setting.                   *)
(***************************************************************************)
RuleModes == {"pre2011", "post2011", "both"}

\* the options of validateSsn
ValidateSsnOptions ==
  [allowNoDashes : BOOLEAN, ruleMode : RuleModes, allowPartial : BOOLEAN]

\* the options of isValidSsn
IsValidSsnOptions ==
  [requireDashes : BOOLEAN, ruleMode : {"pre2011", "post2011"}, allowPartial : BOOLEAN]

Outcomes(s) ==
  [o \in ValidateSsnOptions |->
     validateSsn(s, o.allowNoDashes, o.ruleMode, o.allowPartial)]

Verdicts(s) ==
  [o \in IsValidSsnOptions |->
     isValidSsn(s, o.requireDashes, o.ruleMode, o.allowPartial)]

\* the areas the typed digits are taken from
AreaSamples ==
  {0, 1, 78, 123, 219, 665, 666, 667, 721, 733, 734, 749, 750, 772, 773, 899, 900, 999}

\* the groups and serials that follow the area: the tails of the three
\* advertised SSNs, group 00 and serial 0000 alone and together, and the tail
\* of 123-45-6789
TailSamples ==
  {<<5, 1120>>, <<7, 4426>>, <<9, 9999>>, <<0, 1120>>, <<5, 0>>, <<0, 0>>, <<45, 6789>>}

\* the digits typed past the ninth
OverflowDigits == {"0", "7"}

isPrefix(p, s) == Len(p) <= Len(s) /\ SubSeq(s, 1, Len(p)) = p

AreaStrings == {padStart(a, 3) : a \in AreaSamples}

TailStrings == {padStart(t[1], 2) \o padStart(t[2], 4) : t \in TailSamples}

\* the digit string d is the start of a sampled SSN, or one followed by overflow
Sampled(d) ==
  /\ \E a \in AreaStrings : isPrefix(slice(d, 0, 3), a)
  /\ \E t \in TailStrings : isPrefix(slice(d, 3, 9), t)
  /\ \A i \in 10..Len(d) : d[i] \in OverflowDigits

\* the typing parser with dashes optional takes the text s
wellFormed(s) == onlyDigitsAndDashes(s) /\ scanTyping(s, 1, <<>>, FALSE, FALSE).ok

\* the length of the longest start of s, of at most k characters, that parser takes
RECURSIVE goodLen(_, _)
goodLen(s, k) ==
  IF k = 0 \/ wellFormed(SubSeq(s, 1, k)) THEN k ELSE goodLen(s, k - 1)

\* the number of characters of s from the first one that parser rejects
afterError(s) == Len(s) - goodLen(s, Len(s))

\* the options of normalizeSsn
NormalizeSsnOptions ==
  [allowPartial : BOOLEAN, digitsOnly : BOOLEAN, enforceLength : BOOLEAN]

\* the options of the submit schema; requireDashes absent is requireDashes true
ZodSsnSubmitOptions == [requireDashes : BOOLEAN, ruleMode : {"pre2011", "post2011"}]

\* the mask characters passed: none, and two characters of which the first counts
MaskChars == {<<>>, <<"#", "9">>}

\* the options of maskSsn
MaskSsnOptions ==
  [allowPartial : BOOLEAN, revealLast4 : BOOLEAN, maskChar : MaskChars,
   digitsOnly : BOOLEAN, enforceLength : BOOLEAN]

\* the options of the variant of maskSsn that parses its input
MaskSsnParsedOptions ==
  [allowPartial : BOOLEAN, revealLast4 : BOOLEAN, maskChar : MaskChars,
   allowNoDashes : BOOLEAN, dashMode : {"preserve", "normalize"}]

\* what the display functions give for the text s
Displays(s) ==
  [normalizeSsn |->
     [o \in NormalizeSsnOptions |->
        normalizeSsn(s, o.allowPartial, o.digitsOnly, o.enforceLength)],
   formatSsnFromDigits |-> formatSsnFromDigits(s),
   formatSsnWithOverflow |-> formatSsnWithOverflow(s),
   formatDigits |-> formatSsnFromDigits(extractDigits(s)),
   extractFormatted |-> extractDigits(formatSsnFromDigits(extractDigits(s))),
   formatAgain |->
     formatSsnFromDigits(extractDigits(formatSsnFromDigits(extractDigits(s)))),
   zodSsnSubmit |->
     [o \in ZodSsnSubmitOptions |-> zodSsnSubmit(s, o.requireDashes, o.ruleMode)]]

Masks(s) ==
  [maskSsn |->
     [o \in MaskSsnOptions |->
        maskSsn(s, o.allowPartial, o.revealLast4, o.maskChar, o.digitsOnly,
                o.enforceLength)],
   maskSsnParsed |->
     [o \in MaskSsnParsedOptions |->
        maskSsnParsed(s, o.allowPartial, o.revealLast4, o.maskChar,
                      o.allowNoDashes, o.dashMode)]]

\* the digit runs put into the displayed field, repeated from their start
DigitRuns ==
  { <<"1", "2", "3", "4", "5", "6", "7", "8", "9", "0">>,
    <<"7", "7", "3", "0", "9", "1", "2", "3", "4", "0">> }

\* the digit string d follows one of the runs
OnRun(d) ==
  \E r \in DigitRuns : \A i \in 1..Len(d) : d[i] = r[((i - 1) % Len(r)) + 1]

\* the number of characters of s that are not digits
junk(s) == Len(s) - Len(extractDigits(s))

Init ==
  /\ input = <<>>
  /\ outcome = Outcomes(<<>>)
  /\ valid = Verdicts(<<>>)
  /\ raw = <<>>
  /\ display = Displays(<<>>)
  /\ masked = Masks(<<>>)
  /\ gen = GenIdle

Typed(c) ==
  /\ input' = Append(input, c)
  /\ outcome' = Outcomes(input')
  /\ valid' = Verdicts(input')
  /\ UNCHANGED <<raw, display, masked, gen>>

TypeDigit ==
  /\ afterError(input) < MaxAfterError
  /\ \E c \in Digits :
       /\ Sampled(Append(extractDigits(input), c))
       /\ Typed(c)

TypeDash ==
  /\ afterError(input) < MaxAfterError
  /\ Typed(Dash)

TypeOther ==
  /\ afterError(input) < MaxAfterError
  /\ Typed(Other)

Next == TypeDigit \/ TypeDash \/ TypeOther

Spec == Init /\ [][Next]_vars

(***************************************************************************)
(* The displayed field.  Every character put into it, by key or by paste,  *)
(* is appended to the raw text, which is normalized, formatted and masked  *)
(* under every option setting.                                             *)
(***************************************************************************)
Shown(c) ==
  /\ raw' = Append(raw, c)
  /\ display' = Displays(raw')
  /\ masked' = Masks(raw')
  /\ UNCHANGED <<input, outcome, valid, gen>>

ShowDigit ==
  /\ Len(extractDigits(raw)) < MaxDigits
  /\ \E c \in Digits :
       /\ OnRun(Append(extractDigits(raw), c))
       /\ Shown(c)

ShowDash ==
  /\ junk(raw) < MaxJunk
  /\ Shown(Dash)

ShowOther ==
  /\ junk(raw) < MaxJunk
  /\ Shown(Other)

NextDisplay == ShowDigit \/ ShowDash \/ ShowOther

SpecDisplay == Init /\ [][NextDisplay]_vars

(***************************************************************************)
(* Calls of generateSsn, one after the other.  Each call runs statement by *)
(* statement; every rng() takes any of the values of the random source.    *)
(***************************************************************************)
\* the values the random source returns: 0, the fractions that give the
\* areas 078, 219, 721, 666, 734 and 773, the groups 05, 07 and 09 and the
\* serials 1120, 4426 and 9999
RngValues ==
  { <<0, 1>>, <<77, 899>>, <<218, 899>>, <<720, 899>>, <<665, 899>>,
    <<733, 899>>, <<772, 899>>, <<4, 99>>, <<6, 99>>, <<8, 99>>,
    <<1119, 9999>>, <<4425, 9999>>, <<9998, 9999>> }

\* the options a call is made with; "none" and <<>> stand for an absent option
GenerateSsnOptions ==
  { o \in [mode : {"none", "pre2011", "post2011", "any", "public"},
           format : {"none", "dashed", "digits"},
           publicValue : {<<>>} \cup {GENERATE_PUBLICLY_ADVERTISED[i] : i \in 1..3}] :
      o.publicValue # <<>> => o.mode = "public" }

\* generateSsn(opts)
GenCall ==
  /\ gen.pc = "idle"
  /\ \E o \in GenerateSsnOptions :
       gen' = [GenIdle EXCEPT !.pc = "entry", !.mode = o.mode, !.format = o.format,
                              !.publicValue = o.publicValue]
  /\ UNCHANGED <<input, outcome, valid, raw, display, masked>>

\* mode public: the forced value, or one drawn from the list
GenPublic ==
  /\ gen.pc = "entry"
  /\ modeOf(gen.mode) = "public"
  /\ \E r \in RngValues :
       LET chosen == IF gen.publicValue # <<>> THEN gen.publicValue
                     ELSE GENERATE_PUBLICLY_ADVERTISED[randomInt(r, 0, 2) + 1]
       IN gen' = [gen EXCEPT !.pc = "done", !.result = inFormat(chosen, gen.format)]
  /\ UNCHANGED <<input, outcome, valid, raw, display, masked>>

\* the effective mode: the mode asked for, or for mode any a coin flip
GenEffectiveMode ==
  /\ gen.pc = "entry"
  /\ modeOf(gen.mode) # "public"
  /\ \E r \in RngValues :
       gen' = [gen EXCEPT !.pc = "areaDraw",
                          !.effectiveMode =
                             IF modeOf(gen.mode) = "any"
                               THEN (IF belowHalf(r) THEN "pre2011" ELSE "post2011")
                               ELSE modeOf(gen.mode)]
  /\ UNCHANGED <<input, outcome, valid, raw, display, masked>>

\* generateArea, top of the loop: n is drawn from 1..899
GenAreaDraw ==
  /\ gen.pc = "areaDraw"
  /\ \E r \in RngValues :
       gen' = [gen EXCEPT !.pc = "areaTest", !.n = randomInt(r, 1, 899)]
  /\ UNCHANGED <<input, outcome, valid, raw, display, masked>>

\* generateArea, rest of the loop body: continue, or return pad3(n)
GenAreaTest ==
  /\ gen.pc = "areaTest"
  /\ gen' = IF areaRejected(gen.effectiveMode, gen.n)
              THEN [gen EXCEPT !.pc = "areaDraw"]
              ELSE [gen EXCEPT !.pc = "group", !.area = pad3(gen.n)]
  /\ UNCHANGED <<input, outcome, valid, raw, display, masked>>

GenGroup ==
  /\ gen.pc = "group"
  /\ \E r \in RngValues :
       gen' = [gen EXCEPT !.pc = "serial", !.group = generateNonZeroFixedWidth(r, 2)]
  /\ UNCHANGED <<input, outcome, valid, raw, display, masked>>

GenSerial ==
  /\ gen.pc = "serial"
  /\ \E r \in RngValues :
       gen' = [gen EXCEPT !.pc = "check", !.serial = generateNonZeroFixedWidth(r, 4)]
  /\ UNCHANGED <<input, outcome, valid, raw, display, masked>>

\* `${area}-${group}-${serial}`
GenDashed == gen.area \o <<Dash>> \o gen.group \o <<Dash>> \o gen.serial

\* the value built is not an advertised one: it is returned
GenReturnValue ==
  /\ gen.pc = "check"
  /\ ~includesAdvertised(GenDashed)
  /\ gen' = [gen EXCEPT !.pc = "done", !.result = inFormat(GenDashed, gen.format)]
  /\ UNCHANGED <<input, outcome, valid, raw, display, masked>>

\* the value built is an advertised one: generateSsn calls itself with the
\* same options, one frame deeper
GenRetry ==
  /\ gen.pc = "check"
  /\ includesAdvertised(GenDashed)
  /\ gen.depth < MaxDepth
  /\ gen' = [GenIdle EXCEPT !.pc = "entry", !.mode = gen.mode, !.format = gen.format,
                            !.publicValue = gen.publicValue, !.depth = gen.depth + 1]
  /\ UNCHANGED <<input, outcome, valid, raw, display, masked>>

\* the retry finds no frame left: RangeError, no value is returned
GenStackOverflow ==
  /\ gen.pc = "check"
  /\ includesAdvertised(GenDashed)
  /\ gen.depth = MaxDepth
  /\ gen' = [gen EXCEPT !.pc = "thrown"]
  /\ UNCHANGED <<input, outcome, valid, raw, display, masked>>

\* the caller has the value, or the error
GenDone ==
  /\ gen.pc \in {"done", "thrown"}
  /\ gen' = GenIdle
  /\ UNCHANGED <<input, outcome, valid, raw, display, masked>>

NextGenerate ==
  \/ GenCall
  \/ GenPublic
  \/ GenEffectiveMode
  \/ GenAreaDraw
  \/ GenAreaTest
  \/ GenGroup
  \/ GenSerial
  \/ GenReturnValue
  \/ GenRetry
  \/ GenStackOverflow
  \/ GenDone

SpecGenerate == Init /\ [][NextGenerate]_vars

\* the call is run on: no statement waits for ever
SpecGenerateFair == SpecGenerate /\ WF_vars(NextGenerate)

(***************************************************************************)
(* Properties.  The rules are restated here on the typed digits, apart     *)
(* from the validators' own definitions.                                   *)
(***************************************************************************)
\* the outcome of validateSsn for the text typed so far
O(allowNoDashes, ruleMode, allowPartial) ==
  outcome[[allowNoDashes |-> allowNoDashes, ruleMode |-> ruleMode,
           allowPartial |-> allowPartial]]

\* the verdict of isValidSsn for the text typed so far
V(requireDashes, ruleMode, allowPartial) ==
  valid[[requireDashes |-> requireDashes, ruleMode |-> ruleMode,
         allowPartial |-> allowPartial]]

\* the digits typed so far
D == extractDigits(input)

\* the text is DDD-DD-DDDD
IsDashedSsn ==
  /\ Len(input) = 11
  /\ Len(D) = 9
  /\ input[4] = "-"
  /\ input[7] = "-"

\* the text is DDDDDDDDD
IsPlainSsn == Len(input) = 9 /\ Len(D) = 9

AreaOf == 100 * DigitVal(D[1]) + 10 * DigitVal(D[2]) + DigitVal(D[3])

GroupIsZero == D[4] = "0" /\ D[5] = "0"

SerialIsZero == D[6] = "0" /\ D[7] = "0" /\ D[8] = "0" /\ D[9] = "0"

\* the nine digits of the three advertised SSNs
AdvertisedDigits ==
  { <<"0", "7", "8", "0", "5", "1", "1", "2", "0">>,
    <<"7", "2", "1", "0", "7", "4", "4", "2", "6">>,
    <<"2", "1", "9", "0", "9", "9", "9", "9", "9">> }

\* d with a dash put after its third and after its fifth digit
Dashed(d) == SubSeq(d, 1, 3) \o <<"-">> \o SubSeq(d, 4, 5) \o <<"-">> \o SubSeq(d, 6, 9)

AdvertisedDashed == {Dashed(d) : d \in AdvertisedDigits}

AreaAllowed(ruleMode) ==
  /\ AreaOf # 0
  /\ AreaOf # 666
  /\ AreaOf < 900
  /\ ruleMode = "pre2011" => (AreaOf \notin 734..749 /\ AreaOf < 773)

C2_MonotonicNarrowing ==
  [][ /\ \A a \in BOOLEAN, m \in RuleModes :
           LET p == O(a, m, TRUE)
               q == O(a, m, TRUE)'
           IN  /\ ~p.ok => ~q.ok
               /\ p.error = "INVALID_FORMAT" => q.error = "INVALID_FORMAT"
               /\ (p.error \in {"INVALID_AREA", "INVALID_GROUP"}
                     /\ q.error # "INVALID_FORMAT") => q.error = p.error
      /\ \A r \in BOOLEAN, m \in {"pre2011", "post2011"} :
           ~V(r, m, TRUE) => ~V(r, m, TRUE)'
    ]_vars

\* a text rejected for its group was typed on, and is still rejected for it
C2_Witness ==
  /\ Len(D) >= 7
  /\ O(TRUE, "both", TRUE).error = "INVALID_GROUP"
  /\ ~V(FALSE, "post2011", TRUE)

\* C3: reason-code ordering on a complete, well-formed 9-digit text, in strict
\* and in partial mode: INVALID_AREA exactly when the area is invalid,
\* INVALID_GROUP exactly when the area is valid and the group is 00,
\* INVALID_SERIAL exactly when area and group are valid and the serial is 0000,
\* and the advertised-value reason only when all three segments passed.
C3_ReasonOrder ==
  \A a \in BOOLEAN, m \in RuleModes, ap \in BOOLEAN :
    LET r == O(a, m, ap) IN
    (Len(D) = 9 /\ r.error # "INVALID_FORMAT") =>
      /\ r.error = "INVALID_AREA" <=> ~AreaAllowed(m)
      /\ r.error = "INVALID_GROUP" <=> (AreaAllowed(m) /\ GroupIsZero)
      /\ r.error = "INVALID_SERIAL" <=>
           (AreaAllowed(m) /\ ~GroupIsZero /\ SerialIsZero)
      /\ r.error = "PUBLICLY_ADVERTISED" =>
           (AreaAllowed(m) /\ ~GroupIsZero /\ ~SerialIsZero)

\* group 00 and serial 0000 together, under a valid area: the group is reported
C3_Witness ==
  /\ IsDashedSsn
  /\ AreaAllowed("pre2011")
  /\ GroupIsZero
  /\ SerialIsZero
  /\ O(TRUE, "both", FALSE).error = "INVALID_GROUP"
  /\ O(TRUE, "both", TRUE).error = "INVALID_GROUP"

\* C4: strict validation under post2011 accepts a well-formed 9-digit text
\* exactly when its area is not 000, not 666 and below 900, its group is not
\* 00, its serial is not 0000 and it is not an advertised value; a rejection
\* names a rule that is violated.
C4_StrictPost2011 ==
  /\ \A a \in BOOLEAN :
       LET r == O(a, "post2011", FALSE) IN
       r.error # "INVALID_FORMAT" =>
         /\ r.ok <=> /\ AreaAllowed("post2011")
                     /\ ~GroupIsZero
                     /\ ~SerialIsZero
                     /\ D \notin AdvertisedDigits
         /\ r.error = "INVALID_AREA" => ~AreaAllowed("post2011")
         /\ r.error = "INVALID_GROUP" => GroupIsZero
         /\ r.error = "INVALID_SERIAL" => SerialIsZero
         /\ r.error = "PUBLICLY_ADVERTISED" => D \in AdvertisedDigits
         /\ (~AreaAllowed("post2011") /\ ~GroupIsZero /\ ~SerialIsZero)
              => r.error = "INVALID_AREA"
         /\ (AreaAllowed("post2011") /\ GroupIsZero /\ ~SerialIsZero)
              => r.error = "INVALID_GROUP"
         /\ (AreaAllowed("post2011") /\ ~GroupIsZero /\ SerialIsZero)
              => r.error = "INVALID_SERIAL"
         /\ D \in AdvertisedDigits => r.error = "PUBLICLY_ADVERTISED"
  /\ \A r \in BOOLEAN :
       (IsDashedSsn \/ (~r /\ IsPlainSsn)) =>
         (V(r, "post2011", FALSE) <=> /\ AreaAllowed("post2011")
                                      /\ ~GroupIsZero
                                      /\ ~SerialIsZero
                                      /\ D \notin AdvertisedDigits)

\* area 899 with an allowed group and serial, typed without dashes, is accepted
C4_Witness ==
  /\ IsPlainSsn
  /\ AreaOf = 899
  /\ O(TRUE, "post2011", FALSE).ok
  /\ V(FALSE, "post2011", FALSE)

\* the area typed lies in the ranges reserved before June 25, 2011
AreaReservedPre2011 == Len(D) >= 3 /\ (AreaOf \in 734..749 \/ AreaOf >= 773)

\* the rules past the area, each applied once its segment is complete
TailRulesPass ==
  /\ Len(D) >= 5 => ~GroupIsZero
  /\ Len(D) = 9 => (~SerialIsZero /\ D \notin AdvertisedDigits)

\* C5: under pre2011 every well-formed text whose complete area lies in
\* 734..749 or is 773 or greater is rejected with INVALID_AREA, in strict mode
\* and, from the third digit on, in partial mode; under post2011 the same text
\* is accepted exactly when it passes the base rules.
C5_Pre2011Areas ==
  AreaReservedPre2011 =>
    /\ \A a \in BOOLEAN, ap \in BOOLEAN :
         O(a, "pre2011", ap).error # "INVALID_FORMAT" =>
           /\ O(a, "pre2011", ap).error = "INVALID_AREA"
           /\ O(a, "post2011", ap).ok <=> (AreaOf < 900 /\ TailRulesPass)
    /\ \A r \in BOOLEAN, ap \in BOOLEAN :
         (parseSsnInput(input, r, ap).ok /\ (ap \/ Len(D) = 9)) =>
           /\ ~V(r, "pre2011", ap)
           /\ V(r, "post2011", ap) <=> (AreaOf < 900 /\ TailRulesPass)

\* area 773 alone: rejected while typing under pre2011, accepted under post2011
C5_Witness ==
  /\ Len(input) = 3
  /\ AreaReservedPre2011
  /\ AreaOf = 773
  /\ O(TRUE, "pre2011", TRUE).error = "INVALID_AREA"
  /\ O(TRUE, "post2011", TRUE).ok

\* C6: ruleMode both is ruleMode post2011: for every text and every setting of
\* the other options validateSsn returns the same outcome (ok, reason code,
\* message, normalized value) under both as under post2011.
C6_BothIsPost2011 ==
  \A a \in BOOLEAN, ap \in BOOLEAN : O(a, "both", ap) = O(a, "post2011", ap)

\* a complete SSN that pre2011 rejects for its area and both accepts
C6_Witness ==
  /\ IsDashedSsn
  /\ AreaReservedPre2011
  /\ O(TRUE, "pre2011", FALSE).error = "INVALID_AREA"
  /\ O(TRUE, "both", FALSE).ok

\* the text is the start of t, and shorter
IsProperPrefix(t) == Len(input) < Len(t) /\ SubSeq(t, 1, Len(input)) = input

C8_LookAhead ==
  \A a \in BOOLEAN, m \in RuleModes :
    (Len(D) >= 1 /\ D[1] = "9" /\ O(a, m, TRUE).error # "INVALID_FORMAT") =>
      O(a, m, TRUE).error = "INVALID_AREA"

\* two digits typed, the first a 9: rejected for the area
C8_Witness ==
  /\ Len(input) = 2
  /\ Len(D) = 2
  /\ D[1] = "9"
  /\ O(FALSE, "post2011", TRUE).error = "INVALID_AREA"

\* C9 as stated: validateSsn accepts a lone "9" while typing, rejects "900"
\* with INVALID_AREA, and rejects an area only once its three digits are typed.
C9_AreaOnlyWhenComplete ==
  /\ input = <<"9">> => O(TRUE, "both", TRUE).ok
  /\ input = <<"9", "0", "0">> => O(TRUE, "both", TRUE).error = "INVALID_AREA"
  /\ \A a \in BOOLEAN, m \in RuleModes :
       O(a, m, TRUE).error = "INVALID_AREA" => Len(D) >= 3

\* C9 amended: validateSsn rejects a lone "9" while typing with INVALID_AREA,
\* as it rejects "900"; an area is rejected once its three digits are typed or
\* as soon as its first digit is 9, and a well-formed text of fewer than three
\* digits that does not start with 9 is accepted.
C9_AreaWhenCompleteOrNine ==
  /\ input = <<"9">> => O(TRUE, "both", TRUE).error = "INVALID_AREA"
  /\ input = <<"9", "0", "0">> => O(TRUE, "both", TRUE).error = "INVALID_AREA"
  /\ \A a \in BOOLEAN, m \in RuleModes :
       /\ O(a, m, TRUE).error = "INVALID_AREA" => (Len(D) >= 3 \/ D[1] = "9")
       /\ (Len(D) < 3 /\ O(a, m, TRUE).error # "INVALID_FORMAT"
             /\ (Len(D) >= 1 => D[1] # "9")) => O(a, m, TRUE).ok

\* a lone 9 is rejected for the area
C9_Witness ==
  /\ input = <<"9">>
  /\ ~O(TRUE, "both", TRUE).ok
  /\ O(TRUE, "both", TRUE).error = "INVALID_AREA"

\* C10: progressive evaluation in isValidSsn with allowPartial=true.  A
\* well-formed text is accepted exactly when each rule whose segment is
\* complete passes: the area rule from 3 digits on, the group rule from 5
\* digits on, the serial and advertised-value rules at 9 digits; so every
\* well-formed text of fewer than 3 digits is accepted, "123-0" is accepted and
\* "123-00" is rejected.
C10_Progressive ==
  /\ \A r \in BOOLEAN, m \in {"pre2011", "post2011"} :
       parseSsnInput(input, r, TRUE).ok =>
         (V(r, m, TRUE) <=> /\ Len(D) >= 3 => AreaAllowed(m)
                            /\ TailRulesPass)
  /\ input = <<"1", "2", "3", "-", "0">> => V(TRUE, "post2011", TRUE)
  /\ input = <<"1", "2", "3", "-", "0", "0">> => ~V(TRUE, "post2011", TRUE)

\* "90" is accepted by the boolean validator while typing
C10_Witness ==
  /\ input = <<"9", "0">>
  /\ V(TRUE, "post2011", TRUE)
  /\ V(TRUE, "pre2011", TRUE)

\* the text is the start of some DDD-DD-DDDD
IsDashedPrefix ==
  /\ Len(input) <= 11
  /\ \A i \in 1..Len(input) :
       IF i \in {4, 7} THEN input[i] = "-" ELSE input[i] \in Digits

\* C11: with dashes required and allowPartial=true, parseSsnInput accepts
\* exactly the texts that are the start of some DDD-DD-DDDD: the empty text,
\* "123", "123-" and "123-4" are accepted; "1234" (a fourth digit with no dash
\* after the third) and "123-456" (a sixth digit with no dash after the fifth)
\* are format errors.
C11_DashedPrefixes ==
  /\ parseSsnInput(input, TRUE, TRUE).ok <=> IsDashedPrefix
  /\ input \in {<<>>, <<"1", "2", "3">>, <<"1", "2", "3", "-">>, <<"1", "2", "3", "-", "4">>} => parseSsnInput(input, TRUE, TRUE).ok
  /\ input \in {<<"1", "2", "3", "4">>, <<"1", "2", "3", "-", "4", "5", "6">>} => ~parseSsnInput(input, TRUE, TRUE).ok

\* "123-456" is a format error with dashes required, and not with dashes optional
C11_Witness ==
  /\ input = <<"1", "2", "3", "-", "4", "5", "6">>
  /\ ~parseSsnInput(input, TRUE, TRUE).ok
  /\ parseSsnInput(input, FALSE, TRUE).ok

\* the places of the dashes in the text
DashPlaces == {i \in 1..Len(input) : input[i] = "-"}

\* the number of digits of the text before place i
DigitsBefore(i) == Len(extractDigits(SubSeq(input, 1, i - 1)))

\* only digits and dashes, at most 9 digits, every dash right after 3 or right
\* after 5 digits, and no two dashes after the same number of digits
IsTypingText ==
  /\ \A i \in 1..Len(input) : input[i] \in Digits \cup {"-"}
  /\ Len(D) <= 9
  /\ \A i \in DashPlaces : DigitsBefore(i) \in {3, 5}
  /\ \A i, j \in DashPlaces : DigitsBefore(i) = DigitsBefore(j) => i = j

\* C12: with dashes optional and allowPartial=true, parseSsnInput takes a text
\* exactly when it consists of the characters 0-9 and '-' only, holds at most 9
\* digits, and every '-' stands right after exactly 3 digits or right after
\* exactly 5 digits, at most once at each place; every other text (a dash
\* elsewhere, a doubled dash, a tenth digit, any other character) is a format
\* error.
C12_TypingText ==
  parseSsnInput(input, FALSE, TRUE).ok <=> IsTypingText

\* a doubled dash after the third digit is a format error
C12_Witness ==
  /\ input = <<"1", "2", "3", "-", "-">>
  /\ ~IsTypingText
  /\ ~parseSsnInput(input, FALSE, TRUE).ok

\* n is d with a dash put after the third digit when a fourth is present and
\* after the fifth digit when a sixth is present
IsDashInsertion(n, d) ==
  /\ Len(n) = Len(d) + (IF Len(d) > 3 THEN 1 ELSE 0) + (IF Len(d) > 5 THEN 1 ELSE 0)
  /\ \A i \in 1..Len(n) :
       IF i \in {4, 7} THEN n[i] = "-"
       ELSE n[i] = d[i - (IF i > 7 THEN 2 ELSE IF i > 4 THEN 1 ELSE 0)]

\* C13: whenever validateSsn returns ok, its normalized value is the
\* dash-insertion format of the digits of the text: DDD-DD-DDDD for 9 digits in
\* either mode, and in partial mode the dashed prefix for the digits present,
\* never ending in a dash and whatever dashes the text held ("123-" gives
\* "123", "12345-6789" gives "123-45-6789").
C13_Normalized ==
  /\ \A a \in BOOLEAN, m \in RuleModes, ap \in BOOLEAN :
       LET r == O(a, m, ap) IN
       r.ok =>
         /\ IsDashInsertion(r.normalized, D)
         /\ Len(D) = 9 => r.normalized = Dashed(D)
         /\ r.normalized # <<>> => r.normalized[Len(r.normalized)] # "-"
         /\ ~ap => Len(D) = 9
  /\ input = <<"1", "2", "3", "-">> => O(TRUE, "both", TRUE).normalized = <<"1", "2", "3">>
  /\ input = <<"1", "2", "3", "4", "5", "-", "6", "7", "8", "9">> => O(TRUE, "both", TRUE).normalized = <<"1", "2", "3", "-", "4", "5", "-", "6", "7", "8", "9">>

\* "12345-6789" is accepted while typing and normalized to "123-45-6789"
C13_Witness ==
  /\ input = <<"1", "2", "3", "4", "5", "-", "6", "7", "8", "9">>
  /\ O(TRUE, "both", TRUE).ok
  /\ O(TRUE, "both", TRUE).normalized = <<"1", "2", "3", "-", "4", "5", "-", "6", "7", "8", "9">>

(***************************************************************************)
(* Properties of the displayed field, stated on its raw text.              *)
(***************************************************************************)
\* what normalizeSsn gives for the raw text
N(allowPartial, digitsOnly, enforceLength) ==
  display.normalizeSsn[[allowPartial |-> allowPartial, digitsOnly |-> digitsOnly,
                        enforceLength |-> enforceLength]]

\* what maskSsn gives for the raw text
M(allowPartial, revealLast4, maskChar, digitsOnly, enforceLength) ==
  masked.maskSsn[[allowPartial |-> allowPartial, revealLast4 |-> revealLast4,
                  maskChar |-> maskChar, digitsOnly |-> digitsOnly,
                  enforceLength |-> enforceLength]]

\* what the parsing variant of maskSsn gives for the raw text
MP(allowPartial, revealLast4, maskChar, allowNoDashes, dashMode) ==
  masked.maskSsnParsed[[allowPartial |-> allowPartial, revealLast4 |-> revealLast4,
                        maskChar |-> maskChar, allowNoDashes |-> allowNoDashes,
                        dashMode |-> dashMode]]

\* the decimal digits of the raw text, in order
RawDigits == SelectSeq(raw, LAMBDA c : c \in Digits)

\* the digits kept: the first 9 under enforceLength, all of them otherwise
Kept(enforceLength) ==
  IF enforceLength /\ Len(RawDigits) > 9 THEN SubSeq(RawDigits, 1, 9) ELSE RawDigits

\* C14: normalizeSsn with allowPartial=true never rejects and returns a
\* function of the decimal digits of the text only: every other character is
\* dropped, the digits keep their order, only the first 9 are kept under
\* enforceLength=true and all of them under enforceLength=false; with
\* digitsOnly=true the result is that digit string, otherwise its
\* dash-insertion format, the digits past the ninth appended undashed.
C14_NormalizePartial ==
  \A e \in BOOLEAN :
    /\ N(TRUE, TRUE, e) = Kept(e)
    /\ IsDashInsertion(N(TRUE, FALSE, e), Kept(e))

\* eleven digits among other characters: capped at 9 or kept whole
C14_Witness ==
  /\ Len(RawDigits) = 11
  /\ Len(raw) > 11
  /\ Len(N(TRUE, TRUE, TRUE)) = 9
  /\ Len(N(TRUE, TRUE, FALSE)) = 11
  /\ Len(N(TRUE, FALSE, FALSE)) = 13

\* C15: normalizeSsn with allowPartial=false and digitsOnly=false returns the
\* text unchanged unless exactly 9 digits were extracted, and then those 9
\* digits as DDD-DD-DDDD; so with enforceLength=false a text of 10 or more
\* digits is returned unchanged, and with enforceLength=true it is formatted
\* from its first 9 digits.
C15_NormalizeStrict ==
  /\ \A e \in BOOLEAN :
       N(FALSE, FALSE, e) = IF Len(Kept(e)) = 9 THEN Dashed(Kept(e)) ELSE raw
  /\ Len(RawDigits) >= 10 =>
       /\ N(FALSE, FALSE, FALSE) = raw
       /\ N(FALSE, FALSE, TRUE) = Dashed(SubSeq(RawDigits, 1, 9))

\* ten digits and a character that is no digit: unchanged, or cut to 9 and dashed
C15_Witness ==
  /\ Len(RawDigits) = 10
  /\ Len(raw) = 11
  /\ N(FALSE, FALSE, FALSE) = raw
  /\ Len(N(FALSE, FALSE, TRUE)) = 11
  /\ N(FALSE, FALSE, TRUE) # raw

\* C16: formatSsnFromDigits puts one '-' after the 3rd character exactly when
\* the text has at least 4 characters and one '-' after the 5th exactly when
\* it has at least 6, and changes nothing else: no character is removed,
\* replaced or moved, the characters past the 9th follow with no further dash,
\* and characters that are no digits stay in place.
C16_DashInsertion ==
  LET f == display.formatSsnFromDigits IN
  /\ IsDashInsertion(f, raw)
  /\ Len(raw) <= 3 => f = raw
  /\ Len(raw) = 5 => Len(f) = 6
  /\ Len(raw) >= 6 => Len(f) = Len(raw) + 2

\* a text of more than 9 characters, not all digits, is dashed twice
C16_Witness ==
  /\ Len(raw) > 9
  /\ Len(RawDigits) < Len(raw)
  /\ raw[1] = Other
  /\ display.formatSsnFromDigits[1] = Other
  /\ display.formatSsnFromDigits[4] = "-"
  /\ display.formatSsnFromDigits[7] = "-"
  /\ Len(display.formatSsnFromDigits) = Len(raw) + 2

\* C17: formatting is idempotent through digit extraction: for the digit
\* string d of the text, of any length,
\* formatDigits(extractDigits(formatDigits(d))) = formatDigits(d) and
\* extractDigits(formatDigits(d)) = d.
C17_FormatIdempotent ==
  /\ display.formatAgain = display.formatDigits
  /\ display.extractFormatted = RawDigits

\* eleven digits are formatted, extracted again whole, and formatted the same
C17_Witness ==
  /\ Len(RawDigits) = 11
  /\ Len(display.formatDigits) = 13
  /\ Len(display.extractFormatted) = 11
  /\ display.formatAgain = display.formatDigits

\* the text s holds no decimal digit
NoDigit(s) == \A i \in 1..Len(s) : s[i] \notin Digits

Undashed(s) == SelectSeq(s, LAMBDA c : c # "-")

\* C19 as stated: maskSsn leaves a digit readable only when revealLast4 is set
\* and the digit is one of digits 6 to 9 of the extracted digits: with 5 or
\* fewer digits nothing is revealed, with L digits (6 <= L <= 9) exactly the
\* last L-5, and the digits of the area, of the group and of any overflow past
\* the ninth digit are always masked.
C19_SerialOnly ==
  \A ap \in BOOLEAN, r \in BOOLEAN, mc \in MaskChars, d \in BOOLEAN, e \in BOOLEAN :
    LET out == Undashed(M(ap, r, mc, d, e))
        L == Len(Kept(e))
    IN
    /\ Len(out) = L
    /\ \A i \in 1..L :
         /\ out[i] \in Digits => (r /\ i \in 6..9 /\ out[i] = Kept(e)[i])
         /\ (r /\ i \in 6..9 /\ L <= 9) => out[i] = Kept(e)[i]

\* ten digits, revealLast4 set, no cap: the tenth digit is readable and the
\* sixth is masked
C19_OverflowRevealed ==
  /\ Len(RawDigits) = 10
  /\ Len(raw) = 10
  /\ M(TRUE, TRUE, <<>>, TRUE, FALSE)[10] = RawDigits[10]
  /\ M(TRUE, TRUE, <<>>, TRUE, FALSE)[6] = "*"

\* the first character of maskChar, '*' when maskChar is empty
MaskOf(maskChar) == IF maskChar = <<>> THEN "*" ELSE maskChar[1]

\* C20: maskSsn changes digit places only: its dashed output is the
\* dash-insertion format of the masked digit string, so it has the length and
\* the dash places of the formatted unmasked digits; no '-' is replaced by the
\* mask character; and only the first character of maskChar is used, '*' when
\* maskChar is empty.
C20_DigitPlacesOnly ==
  \A ap \in BOOLEAN, r \in BOOLEAN, mc \in MaskChars, e \in BOOLEAN :
    LET out == M(ap, r, mc, FALSE, e)
        shown == N(TRUE, FALSE, e)
    IN
    /\ IsDashInsertion(out, M(ap, r, mc, TRUE, e))
    /\ Len(out) = Len(shown)
    /\ \A i \in 1..Len(out) :
         /\ out[i] = "-" <=> shown[i] = "-"
         /\ out[i] \in {"-", MaskOf(mc), shown[i]}

\* nine digits masked with maskChar "#9": dashes kept, '#' at every digit
C20_Witness ==
  /\ Len(RawDigits) = 9
  /\ Len(raw) = 11
  /\ M(TRUE, FALSE, <<"#", "9">>, FALSE, FALSE) = <<"#", "#", "#", "-", "#", "#", "-", "#", "#", "#", "#">>
  /\ M(TRUE, FALSE, <<>>, FALSE, FALSE) = <<"*", "*", "*", "-", "*", "*", "-", "*", "*", "*", "*">>


(***************************************************************************)
(* Properties of the generator.                                            *)
(***************************************************************************)
\* the digits of the value the call returned
G == extractDigits(gen.result)

\* the call has returned a value
Returned == gen.pc = "done"

\* the value returned is nine digits, written in the format asked for
InFormatAsked ==
  /\ Len(G) = 9
  /\ gen.result = IF formatOf(gen.format) = "digits" THEN G ELSE Dashed(G)

\* C21: generator validity.  A value returned under an effective mode pre2011
\* or post2011 (asked for, or chosen by mode any) is nine digits in the format
\* asked for, passes strict validation under that rule mode, and has its area
\* in 001..899 and not 666 (under pre2011 also outside 734..749 and below
\* 773), its group in 01..99 and its serial in 0001..9999.
C21_GeneratedValid ==
  (Returned /\ modeOf(gen.mode) # "public") =>
    /\ InFormatAsked
    /\ gen.effectiveMode \in {"pre2011", "post2011"}
    /\ gen.mode \in {"pre2011", "post2011"} => gen.effectiveMode = gen.mode
    /\ isValidSsn(gen.result, formatOf(gen.format) = "dashed", gen.effectiveMode, FALSE)
    /\ LET area == Number(SubSeq(G, 1, 3))
           group == Number(SubSeq(G, 4, 5))
           serial == Number(SubSeq(G, 6, 9))
       IN  /\ area \in 1..899
           /\ area # 666
           /\ gen.effectiveMode = "pre2011" => (area \notin 734..749 /\ area < 773)
           /\ group \in 1..99
           /\ serial \in 1..9999

\* a pre2011 call returned a value of area 721, written without dashes
C21_Witness ==
  /\ Returned
  /\ gen.mode = "pre2011"
  /\ gen.format = "digits"
  /\ gen.n = 721
  /\ SubSeq(G, 1, 3) = <<"7", "2", "1">>
  /\ isValidSsn(gen.result, FALSE, "pre2011", FALSE)

\* C22: denylist exclusion.  In the modes pre2011, post2011 and any, dashed or
\* digits, whatever the random source returns and however many calls came
\* before, the value returned is none of the three advertised SSNs.
C22_NeverAdvertised ==
  (Returned /\ modeOf(gen.mode) # "public") =>
    /\ G \notin AdvertisedDigits
    /\ gen.result \notin AdvertisedDashed

\* an advertised value was built and thrown away, and the second try returned
C22_Witness ==
  /\ Returned
  /\ gen.mode = "any"
  /\ gen.depth = 1
  /\ SubSeq(G, 1, 5) = <<"0", "7", "8", "0", "5">>
  /\ G \notin AdvertisedDigits

\* C23: mode public.  The value returned is one of the three advertised SSNs
\* (the forced publicValue when one is given), dashed or with its dashes
\* removed as the format asks; strict validation rejects it, validateSsn with
\* the reason PUBLICLY_ADVERTISED under every rule mode.
C23_PublicMode ==
  (Returned /\ gen.mode = "public") =>
    /\ InFormatAsked
    /\ G \in AdvertisedDigits
    /\ gen.publicValue # <<>> => G = extractDigits(gen.publicValue)
    /\ \A m \in RuleModes :
         LET r == validateSsn(gen.result, TRUE, m, FALSE)
         IN  ~r.ok /\ r.error = "PUBLICLY_ADVERTISED"
    /\ \A m \in {"pre2011", "post2011"} :
         ~isValidSsn(gen.result, formatOf(gen.format) = "dashed", m, FALSE)

\* 219-09-9999 forced, returned without its dashes
C23_Witness ==
  /\ Returned
  /\ gen.mode = "public"
  /\ gen.format = "digits"
  /\ gen.publicValue = GENERATE_PUBLICLY_ADVERTISED[3]
  /\ gen.result = <<"2", "1", "9", "0", "9", "9", "9", "9", "9">>

\* the call was made with no options
NoOptions == gen.mode = "none" /\ gen.format = "none" /\ gen.publicValue = <<>>

\* C24: called with no options, generateSsn uses mode public: the value
\* returned is one of the three advertised SSNs, dashed.
C24_DefaultPublic ==
  (Returned /\ NoOptions) => gen.result \in AdvertisedDashed

\* a call with no options returned a dashed value that is not advertised
C24_DefaultAny ==
  /\ Returned
  /\ NoOptions
  /\ gen.effectiveMode = "post2011"
  /\ gen.result = Dashed(G)
  /\ G \notin AdvertisedDigits
  /\ isValidSsn(gen.result, TRUE, "post2011", FALSE)

\* C25: every call of generateSsn ends, with a value or with an error,
\* whatever the random source returns.
C25_Terminates == (gen.pc = "entry") ~> (gen.pc \in {"done", "thrown"})

\* generateArea has drawn 666 and is about to draw again
C25_Redraw ==
  /\ gen.pc = "areaDraw"
  /\ gen.n = 666
  /\ gen.effectiveMode = "post2011"


(***************************************************************************)
(* Properties of the form field: strict against partial validation.        *)
(***************************************************************************)
\* the text has the strict format: DDD-DD-DDDD, or DDDDDDDDD when the
\* dashes are optional
IsStrictFormat(dashesOptional) == IsDashedSsn \/ (dashesOptional /\ IsPlainSsn)

\* C26: in strict mode a text that is not DDD-DD-DDDD (nor DDDDDDDDD when
\* the dashes are optional) is rejected for its format, whatever rule its
\* digits break: validateSsn reports INVALID_FORMAT, isValidSsn rejects.
C26_StrictFormatFirst ==
  /\ \A a \in BOOLEAN, m \in RuleModes :
       ~IsStrictFormat(a) =>
         (~O(a, m, FALSE).ok /\ O(a, m, FALSE).error = "INVALID_FORMAT")
  /\ \A r \in BOOLEAN, m \in {"pre2011", "post2011"} :
       ~IsStrictFormat(~r) => ~V(r, m, FALSE)

\* "900": an area error while typing, a format error in strict mode
C26_Witness ==
  /\ input = <<"9", "0", "0">>
  /\ O(TRUE, "both", TRUE).error = "INVALID_AREA"
  /\ O(TRUE, "both", FALSE).error = "INVALID_FORMAT"

\* "123-00": a group error while typing, a format error in strict mode
C26_WitnessGroup ==
  /\ input = <<"1", "2", "3", "-", "0", "0">>
  /\ O(TRUE, "both", TRUE).error = "INVALID_GROUP"
  /\ O(TRUE, "both", FALSE).error = "INVALID_FORMAT"

\* C27: partial validation is never more permissive than strict validation
\* at full length: for every text holding 9 digits and every setting of the
\* options, a text accepted with allowPartial=true is accepted with
\* allowPartial=false.
C27_NeverMorePermissive ==
  Len(D) = 9 =>
    /\ \A a \in BOOLEAN, m \in RuleModes : O(a, m, TRUE).ok => O(a, m, FALSE).ok
    /\ \A r \in BOOLEAN, m \in {"pre2011", "post2011"} : V(r, m, TRUE) => V(r, m, FALSE)

\* C27, amended: a text holding 9 digits that partial validation accepts is
\* rejected by strict validation only for its format; written DDD-DD-DDDD,
\* or DDDDDDDDD with the dashes optional, it is accepted by strict validation.
C27_PermissiveInFormatOnly ==
  Len(D) = 9 =>
    /\ \A a \in BOOLEAN, m \in RuleModes :
         O(a, m, TRUE).ok =>
           /\ O(a, m, FALSE).ok \/ O(a, m, FALSE).error = "INVALID_FORMAT"
           /\ IsStrictFormat(a) => O(a, m, FALSE).ok
    /\ \A r \in BOOLEAN, m \in {"pre2011", "post2011"} :
         (V(r, m, TRUE) /\ IsStrictFormat(~r)) => V(r, m, FALSE)

\* nine digits with one dash, after the fifth digit: accepted while typing
\* with the dashes optional, a format error in strict mode
C27_Witness ==
  /\ Len(D) = 9
  /\ Len(input) = 10
  /\ input[6] = "-"
  /\ O(TRUE, "both", TRUE).ok
  /\ O(TRUE, "both", FALSE).error = "INVALID_FORMAT"
  /\ V(FALSE, "post2011", TRUE)
  /\ ~V(FALSE, "post2011", FALSE)

First9 == SubSeq(RawDigits, 1, Min(9, Len(RawDigits)))

C30_SameFormat == display.formatSsnWithOverflow = display.formatSsnFromDigits

\* more than nine characters: both give the first nine with their two
\* dashes, then the rest
C30_Witness ==
  /\ Len(raw) > 9
  /\ display.formatSsnWithOverflow = display.formatSsnFromDigits
  /\ Len(display.formatSsnWithOverflow) = Len(raw) + 2
  /\ SubSeq(display.formatSsnWithOverflow, 12, Len(raw) + 2) = SubSeq(raw, 10, Len(raw))

====
